---- MODULE Spec2Model ----
(***************************************************************************)
(* Model of caida_rozamiento_laplace.py: the interactive run of main().    *)
(* One console line is read per prompt; the text is parsed the way         *)
(* Python's str.strip / float / int do it (including "nan" and "inf"),     *)
(* and main()'s statements after the prompts are separate steps.           *)
(* Numbers are exact rationals n/d plus the IEEE special values; the       *)
(* rounding of double precision is not modelled.                           *)
(***************************************************************************)
EXTENDS Integers, Sequences, FiniteSets, TLC

(* ------------------------------------------------------------------ *)
(* Bounds                                                               *)
(* ------------------------------------------------------------------ *)
\* Largest scenario count a user types at the "Cantidad de escenarios" prompt.
MaxEscenarios == 2

(* ------------------------------------------------------------------ *)
(* float values: finite rationals, nan, +-inf                           *)
(* ------------------------------------------------------------------ *)
RECURSIVE GCD(_, _)
GCD(a, b) == IF b = 0 THEN a ELSE GCD(b, a % b)

Abs(x) == IF x < 0 THEN -x ELSE x

\* A finite float n/d in lowest terms, d > 0.
Fin(n, d) ==
    LET s == IF d < 0 THEN -1 ELSE 1
        c == GCD(Abs(n), Abs(d))
    IN  [k |-> "fin", n |-> (s * n) \div c, d |-> (s * d) \div c]

NaN == [k |-> "nan", n |-> 0, d |-> 1]
Inf(sign) == [k |-> "inf", n |-> sign, d |-> 1]
\* A local name that is not bound yet.
Unbound == [k |-> "unbound", n |-> 0, d |-> 1]

IsFin(x) == x.k = "fin"

\* x <= 0 and x > 0 as Python evaluates them on floats: both are False on nan.
LeZero(x) == (x.k = "fin" /\ x.n <= 0) \/ (x.k = "inf" /\ x.n < 0)
GtZero(x) == (x.k = "fin" /\ x.n > 0) \/ (x.k = "inf" /\ x.n > 0)

\* Exact arithmetic on finite values; any special operand gives nan here
\* (the model only uses the results of finite operands and of nan).
Add(x, y) == IF IsFin(x) /\ IsFin(y) THEN Fin(x.n * y.d + y.n * x.d, x.d * y.d) ELSE NaN
Sub(x, y) == IF IsFin(x) /\ IsFin(y) THEN Fin(x.n * y.d - y.n * x.d, x.d * y.d) ELSE NaN
Mul(x, y) == IF IsFin(x) /\ IsFin(y) THEN Fin(x.n * y.n, x.d * y.d) ELSE NaN
Div(x, y) == IF IsFin(x) /\ IsFin(y) /\ y.n # 0 THEN Fin(x.n * y.d, x.d * y.n) ELSE NaN
Neg(x) == IF IsFin(x) THEN Fin(-x.n, x.d) ELSE NaN

(* ------------------------------------------------------------------ *)
(* Console text: a line is a sequence of characters                     *)
(* ------------------------------------------------------------------ *)
IsSpace(c) == c \in {" ", "\t"}

RECURSIVE LStrip(_)
LStrip(s) == IF s # <<>> /\ IsSpace(Head(s)) THEN LStrip(Tail(s)) ELSE s

RECURSIVE RStrip(_)
RStrip(s) ==
    IF s # <<>> /\ IsSpace(s[Len(s)]) THEN RStrip(SubSeq(s, 1, Len(s) - 1)) ELSE s

\* str.strip()
Strip(s) == RStrip(LStrip(s))

Digits == <<"0", "1", "2", "3", "4", "5", "6", "7", "8", "9">>
IsDigit(c) == \E v \in 1..10 : Digits[v] = c
DigitVal(c) == (CHOOSE v \in 1..10 : Digits[v] = c) - 1

RECURSIVE DigitsVal(_)
DigitsVal(s) ==
    IF s = <<>> THEN 0 ELSE 10 * DigitsVal(SubSeq(s, 1, Len(s) - 1)) + DigitVal(s[Len(s)])

RECURSIVE Pow10(_)
Pow10(e) == IF e = 0 THEN 1 ELSE 10 * Pow10(e - 1)

\* str(n) for n >= 0
RECURSIVE IntText(_)
IntText(n) == IF n < 10 THEN <<Digits[n + 1]>> ELSE IntText(n \div 10) \o <<Digits[(n % 10) + 1]>>

\* float(txt) on a stripped, non-empty text: sign, then nan, inf or
\* digits[.digits]. ok = FALSE is ValueError.
ParseFloat(txt) ==
    LET signed == Head(txt) \in {"+", "-"}
        sign   == IF Head(txt) = "-" THEN -1 ELSE 1
        body   == IF signed THEN Tail(txt) ELSE txt
        dots   == {p \in 1..Len(body) : body[p] = "."}
        dot    == IF dots = {} THEN Len(body) + 1 ELSE CHOOSE p \in dots : \A q \in dots : p <= q
        ip     == SubSeq(body, 1, dot - 1)
        fp     == SubSeq(body, dot + 1, Len(body))
        number == /\ Len(ip) + Len(fp) >= 1
                  /\ \A p \in 1..Len(ip) : IsDigit(ip[p])
                  /\ \A p \in 1..Len(fp) : IsDigit(fp[p])
    IN  IF body = <<"n", "a", "n">> THEN [ok |-> TRUE, v |-> NaN]
        ELSE IF body = <<"i", "n", "f">> THEN [ok |-> TRUE, v |-> Inf(sign)]
        ELSE IF number
             THEN [ok |-> TRUE,
                   v |-> Fin(sign * (DigitsVal(ip) * Pow10(Len(fp)) + DigitsVal(fp)), Pow10(Len(fp)))]
             ELSE [ok |-> FALSE, v |-> NaN]

MsgInvalido == "Valor invalido, usando el valor por defecto."

\* leer_float(mensaje, default): the value returned and what it prints.
leer_float(line, default) ==
    LET txt == Strip(line)
    IN  IF txt = <<>> THEN [v |-> default, out |-> <<>>]
        ELSE IF ParseFloat(txt).ok THEN [v |-> ParseFloat(txt).v, out |-> <<>>]
        ELSE [v |-> default, out |-> <<MsgInvalido>>]

\* int(x) on a float: truncation toward zero; nan and inf raise.
IntOf(x) ==
    IF x.k = "nan" THEN [exc |-> "ValueError", v |-> 0]
    ELSE IF x.k = "inf" THEN [exc |-> "OverflowError", v |-> 0]
    ELSE [exc |-> "none", v |-> IF x.n >= 0 THEN x.n \div x.d ELSE -((-x.n) \div x.d)]

(* ------------------------------------------------------------------ *)
(* Symbolic Solver and Numeric Evaluator                                *)
(* ------------------------------------------------------------------ *)
\* The transformed equation with the sign of the initial value wrong:
\*   m*(s*V + v0) = m*g/s - gamma*V.
eq_L_SignoV0(m, gamma, g, v0) ==
    [lhs_sV |-> m, lhs_1 |-> Mul(m, v0), rhs_inv_s |-> Mul(m, g), rhs_V |-> Neg(gamma)]

\* The transformed equation  m*(s*V - v0) = m*g/s - gamma*V  as the
\* coefficients of its terms: lhs = lhs_sV*s*V + lhs_1, rhs = rhs_inv_s/s + rhs_V*V.
eq_L(m, gamma, g, v0) ==
    [lhs_sV |-> m, lhs_1 |-> Neg(Mul(m, v0)), rhs_inv_s |-> Mul(m, g), rhs_V |-> Neg(gamma)]

\* sp.solve(eq_L, V)[0]: the equation is linear in V,
\*   V(s) = (P + Q*s) / (s * (A*s + B)).
V_sol(eq) ==
    [P |-> eq.rhs_inv_s, Q |-> Neg(eq.lhs_1), A |-> eq.lhs_sV, B |-> Neg(eq.rhs_V)]

\* sp.inverse_laplace_transform(V_sol, s, t): the residues at the poles
\* s = 0 and s = -B/A give  v(t) = const + coef * exp(-rate * t).
inverse_laplace_transform(V) ==
    [const |-> Div(V.P, V.B),
     coef  |-> Sub(Div(V.Q, V.A), Div(V.P, V.B)),
     rate  |-> Div(V.B, V.A)]

\* v_expr with the values of the parameters substituted.
VExpr(m, gamma, g, v0) == inverse_laplace_transform(V_sol(eq_L(m, gamma, g, v0)))

\* One sample of v_num(t, m, gamma, g, v0): the value const + coef*exp(-arg),
\* kept as its three exact components.
VNumAt(t, m, gamma, g, v0) ==
    LET e == VExpr(m, gamma, g, v0)
    IN  [const |-> e.const, coef |-> e.coef, arg |-> Mul(e.rate, t)]

\* The number a sample stands for where no exponential is left: exp(0) = 1.
SampleValue(x) ==
    IF IsFin(x.arg) /\ x.arg.n = 0 THEN Add(x.const, x.coef) ELSE NaN

\* np.linspace(start, stop, num): sample p (0-based) is p*step + start with
\* step = (stop - start)/(num - 1), and the last sample is set to stop.
LinspaceAt(grid, p) ==
    IF p = grid.num - 1 THEN grid.stop
    ELSE Add(Mul(Fin(p, 1), Div(Sub(grid.stop, grid.start), Fin(grid.num - 1, 1))), grid.start)

NoGrid == [start |-> Unbound, stop |-> Unbound, num |-> 0]

\* v_num(t_vals, m_val, gamma_val, g_val, v0_val): first and last sample and the length.
v_num_eval(grid, esc) ==
    [num   |-> grid.num,
     first |-> VNumAt(LinspaceAt(grid, 0), esc.m, esc.gamma, esc.g, esc.v0),
     last  |-> VNumAt(LinspaceAt(grid, grid.num - 1), esc.m, esc.gamma, esc.g, esc.v0)]

(* ------------------------------------------------------------------ *)
(* Program constants                                                    *)
(* ------------------------------------------------------------------ *)
DefaultTMax == Fin(10, 1)
DefaultNPuntos == Fin(500, 1)
DefaultNEscenarios == Fin(1, 1)
DefaultM == Fin(80, 1)
DefaultGamma == Fin(12, 1)
DefaultG == Fin(981, 100)
DefaultV0 == Fin(0, 1)
MinPuntos == 2
NPuntosFallback == 100
MinEscenarios == 1

MsgErrorTMax == "ERROR: T_max debe ser positivo."
MsgWarnPuntos == "ADVERTENCIA: n_puntos muy chico, usando 100."
MsgWarnEscenarios == "ADVERTENCIA: cantidad de escenarios < 1, usando 1."
MsgErrorEscenario == "ERROR: m y gamma deben ser positivos. Saliendo."
MsgTraceback == "Traceback (most recent call last)"

\* f"Escenario {i+1}"
DefaultNombre(i) == <<"E", "s", "c", "e", "n", "a", "r", "i", "o", " ">> \o IntText(i + 1)

\* The test of line 133 with "and" for "or".
InvalidoAmbos(m, gamma) == LeZero(m) /\ LeZero(gamma)

\* The test of line 133 that ends the run.
Invalido(m, gamma) == LeZero(m) \/ LeZero(gamma)

(* ------------------------------------------------------------------ *)
(* Console lines the user types at each prompt                          *)
(* ------------------------------------------------------------------ *)
TMaxLines ==
    {<<>>, <<" ">>, <<"x">>, <<"n", "a", "n">>, <<"0">>, <<"-", "1", ".", "5">>}
NPuntosLines ==
    {<<>>, <<"a", "b">>, <<"n", "a", "n">>, <<"i", "n", "f">>,
     <<"1", ".", "9">>, <<"2", ".", "9">>, <<"-", "0", ".", "5">>}
NEscenariosLines ==
    {<<>>, <<"n", "a", "n">>, <<"-", "i", "n", "f">>, <<"0", ".", "9">>, <<"-", "3">>}
        \cup {IntText(n) : n \in 1..MaxEscenarios}
NombreLines == {<<>>, <<" ", " ">>, <<" ", "A", " ">>}
MLines == {<<>>, <<"0">>, <<"n", "a", "n">>, <<"x">>, <<"-", "2">>}
GammaLines == {<<>>, <<" ", "0", ".", "5">>, <<"-", "0">>}
GLines == {<<>>, <<"g">>}
V0Lines == {<<>>, <<"7", "0">>}

(* ------------------------------------------------------------------ *)
(* State                                                                *)
(* ------------------------------------------------------------------ *)
VARIABLES
    pc,             \* the statement main() is at
    exit_status,    \* the process's exit status, NoExit while it runs
    exception,      \* the uncaught exception that ended the run, or "none"
    lines,          \* console lines read so far
    lastPrompt,     \* the prompt that read the last line
    lastInput,      \* the last line read
    printed,        \* the notices the last step printed
    t_max, n_puntos, n_escenarios,
    i, nombre, m_val, gamma_val, g_val, v0_val,
    escenarios,
    solver_calls, lambdify_calls,
    v_expr, v_num, t_vals, figure,
    results, curves, chart_shown

vars == <<pc, exit_status, exception, lines, lastPrompt, lastInput, printed,
          t_max, n_puntos, n_escenarios, i, nombre, m_val, gamma_val, g_val, v0_val,
          escenarios, solver_calls, lambdify_calls, v_expr, v_num, t_vals, figure,
          results, curves, chart_shown>>

NoExit == -1

\* main() building the numeric evaluator right after the symbolic solution,
\* before the prompts.
MainOrderLambdifyPrimero ==
    <<"solver", "lambdify", "config", "escenarios", "linspace", "figure", "loop", "show">>

\* The order of main()'s phases.
MainOrder ==
    <<"solver", "config", "escenarios", "lambdify", "linspace", "figure", "loop", "show">>

\* The first statement of a phase.
PhaseEntry(ph) ==
    CASE ph = "config" -> "T_max"
      [] ph = "escenarios" -> "nombre"
      [] OTHER -> ph

\* Where main() continues after a phase.
After(ph) ==
    LET p == CHOOSE q \in 1..Len(MainOrder) : MainOrder[q] = ph
    IN  IF p = Len(MainOrder) THEN "return" ELSE PhaseEntry(MainOrder[p + 1])

Init ==
    /\ pc = PhaseEntry(MainOrder[1])
    /\ exit_status = NoExit
    /\ exception = "none"
    /\ lines = 0
    /\ lastPrompt = "none"
    /\ lastInput = <<>>
    /\ printed = <<>>
    /\ t_max = Unbound
    /\ n_puntos = 0
    /\ n_escenarios = 0
    /\ i = 0
    /\ nombre = <<>>
    /\ m_val = Unbound
    /\ gamma_val = Unbound
    /\ g_val = Unbound
    /\ v0_val = Unbound
    /\ escenarios = <<>>
    /\ solver_calls = 0
    /\ lambdify_calls = 0
    /\ v_expr = "unbound"
    /\ v_num = "unbound"
    /\ t_vals = NoGrid
    /\ figure = FALSE
    /\ results = <<>>
    /\ curves = <<>>
    /\ chart_shown = FALSE

(* ------------------------------------------------------------------ *)
(* Ways a step ends the run                                             *)
(* ------------------------------------------------------------------ *)
\* sys.exit(1) after printing msg.
SysExit1(out) ==
    /\ pc' = "exited"
    /\ exit_status' = 1
    /\ exception' = "none"
    /\ printed' = out

\* An exception nothing catches: the interpreter prints the traceback and the
\* process ends with status 1.
Uncaught(exc, out) ==
    /\ pc' = "exited"
    /\ exit_status' = 1
    /\ exception' = exc
    /\ printed' = out \o <<MsgTraceback>>

\* input(...): one console line is consumed at prompt p.
Input(p, line) ==
    /\ pc = p
    /\ lines' = lines + 1
    /\ lastPrompt' = p
    /\ lastInput' = line

(* ------------------------------------------------------------------ *)
(* main(), phase 1: the symbolic solution                               *)
(* ------------------------------------------------------------------ *)
construir_solucion_simbolica ==
    /\ pc = "solver"
    /\ v_expr' = "built"
    /\ solver_calls' = solver_calls + 1
    /\ printed' = <<"Solucion simbolica v(t)">>
    /\ pc' = After("solver")
    /\ UNCHANGED <<exit_status, exception, lines, lastPrompt, lastInput,
                   t_max, n_puntos, n_escenarios, i, nombre, m_val, gamma_val, g_val,
                   v0_val, escenarios, lambdify_calls, v_num, t_vals, figure,
                   results, curves, chart_shown>>

(* ------------------------------------------------------------------ *)
(* pedir_configuracion_global                                           *)
(* ------------------------------------------------------------------ *)
\* The first prompt with the check of line 91 right behind it.
ReadTMaxEager ==
    \E line \in TMaxLines :
        LET r == leer_float(line, DefaultTMax)
        IN  /\ Input("T_max", line)
            /\ t_max' = r.v
            /\ IF LeZero(r.v)
               THEN SysExit1(r.out \o <<MsgErrorTMax>>)
               ELSE /\ printed' = r.out
                    /\ pc' = "n_puntos"
                    /\ UNCHANGED <<exit_status, exception>>
            /\ UNCHANGED <<n_puntos, n_escenarios, i, nombre,
                           m_val, gamma_val, g_val, v0_val, escenarios, solver_calls,
                           lambdify_calls, v_expr, v_num, t_vals, figure, results,
                           curves, chart_shown>>

ReadTMax ==
    \E line \in TMaxLines :
        LET r == leer_float(line, DefaultTMax)
        IN  /\ Input("T_max", line)
            /\ t_max' = r.v
            /\ printed' = r.out
            /\ pc' = "n_puntos"
            /\ UNCHANGED <<exit_status, exception, n_puntos, n_escenarios, i, nombre,
                           m_val, gamma_val, g_val, v0_val, escenarios, solver_calls,
                           lambdify_calls, v_expr, v_num, t_vals, figure, results,
                           curves, chart_shown>>

ReadNPuntos ==
    \E line \in NPuntosLines :
        LET r == leer_float(line, DefaultNPuntos)
            c == IntOf(r.v)
        IN  /\ Input("n_puntos", line)
            /\ IF c.exc # "none"
               THEN /\ Uncaught(c.exc, r.out)
                    /\ UNCHANGED n_puntos
               ELSE /\ n_puntos' = c.v
                    /\ printed' = r.out
                    /\ pc' = "n_escenarios"
                    /\ UNCHANGED <<exit_status, exception>>
            /\ UNCHANGED <<t_max, n_escenarios, i, nombre, m_val, gamma_val, g_val,
                           v0_val, escenarios, solver_calls, lambdify_calls, v_expr,
                           v_num, t_vals, figure, results, curves, chart_shown>>

\* The third prompt and the checks of lines 91-103 that follow it.
ReadNEscenarios ==
    \E line \in NEscenariosLines :
        LET r == leer_float(line, DefaultNEscenarios)
            c == IntOf(r.v)
            wp == IF n_puntos < MinPuntos THEN <<MsgWarnPuntos>> ELSE <<>>
            we == IF c.v < MinEscenarios THEN <<MsgWarnEscenarios>> ELSE <<>>
        IN  /\ Input("n_escenarios", line)
            /\ IF c.exc # "none"
               THEN /\ Uncaught(c.exc, r.out)
                    /\ UNCHANGED <<n_puntos, n_escenarios>>
               ELSE IF LeZero(t_max)
               THEN /\ SysExit1(r.out \o <<MsgErrorTMax>>)
                    /\ n_escenarios' = c.v
                    /\ UNCHANGED n_puntos
               ELSE /\ n_puntos' = IF n_puntos < MinPuntos THEN NPuntosFallback ELSE n_puntos
                    /\ n_escenarios' = IF c.v < MinEscenarios THEN MinEscenarios ELSE c.v
                    /\ printed' = r.out \o wp \o we
                    /\ pc' = After("config")
                    /\ UNCHANGED <<exit_status, exception>>
            /\ UNCHANGED <<t_max, i, nombre, m_val, gamma_val, g_val, v0_val, escenarios,
                           solver_calls, lambdify_calls, v_expr, v_num, t_vals, figure,
                           results, curves, chart_shown>>

(* ------------------------------------------------------------------ *)
(* pedir_escenarios                                                     *)
(* ------------------------------------------------------------------ *)
ReadNombre ==
    \E line \in NombreLines :
        /\ Input("nombre", line)
        /\ nombre' = IF Strip(line) = <<>> THEN DefaultNombre(i) ELSE Strip(line)
        /\ printed' = <<>>
        /\ pc' = "m"
        /\ UNCHANGED <<exit_status, exception, t_max, n_puntos, n_escenarios, i, m_val,
                       gamma_val, g_val, v0_val, escenarios, solver_calls, lambdify_calls,
                       v_expr, v_num, t_vals, figure, results, curves, chart_shown>>

ReadM ==
    \E line \in MLines :
        LET r == leer_float(line, DefaultM)
        IN  /\ Input("m", line)
            /\ m_val' = r.v
            /\ printed' = r.out
            /\ pc' = "gamma"
            /\ UNCHANGED <<exit_status, exception, t_max, n_puntos, n_escenarios, i,
                           nombre, gamma_val, g_val, v0_val, escenarios, solver_calls,
                           lambdify_calls, v_expr, v_num, t_vals, figure, results,
                           curves, chart_shown>>

ReadGamma ==
    \E line \in GammaLines :
        LET r == leer_float(line, DefaultGamma)
        IN  /\ Input("gamma", line)
            /\ gamma_val' = r.v
            /\ printed' = r.out
            /\ pc' = "g"
            /\ UNCHANGED <<exit_status, exception, t_max, n_puntos, n_escenarios, i,
                           nombre, m_val, g_val, v0_val, escenarios, solver_calls,
                           lambdify_calls, v_expr, v_num, t_vals, figure, results,
                           curves, chart_shown>>

ReadG ==
    \E line \in GLines :
        LET r == leer_float(line, DefaultG)
        IN  /\ Input("g", line)
            /\ g_val' = r.v
            /\ printed' = r.out
            /\ pc' = "v0"
            /\ UNCHANGED <<exit_status, exception, t_max, n_puntos, n_escenarios, i,
                           nombre, m_val, gamma_val, v0_val, escenarios, solver_calls,
                           lambdify_calls, v_expr, v_num, t_vals, figure, results,
                           curves, chart_shown>>

\* The fifth prompt of a scenario, the check of line 133, the append, and the
\* loop's next iteration or the return.
ReadV0 ==
    \E line \in V0Lines :
        LET r == leer_float(line, DefaultV0)
        IN  /\ Input("v0", line)
            /\ v0_val' = r.v
            /\ IF Invalido(m_val, gamma_val)
               THEN /\ SysExit1(r.out \o <<MsgErrorEscenario>>)
                    /\ UNCHANGED <<escenarios, i>>
               ELSE /\ escenarios' = Append(escenarios,
                           [nombre |-> nombre, m |-> m_val, gamma |-> gamma_val,
                            g |-> g_val, v0 |-> r.v])
                    /\ i' = i + 1
                    /\ printed' = r.out
                    /\ pc' = IF i + 1 < n_escenarios THEN "nombre" ELSE After("escenarios")
                    /\ UNCHANGED <<exit_status, exception>>
            /\ UNCHANGED <<t_max, n_puntos, n_escenarios, nombre, m_val, gamma_val, g_val,
                           solver_calls, lambdify_calls, v_expr, v_num, t_vals, figure,
                           results, curves, chart_shown>>

(* ------------------------------------------------------------------ *)
(* main(), after the prompts                                            *)
(* ------------------------------------------------------------------ *)
\* v_num = sp.lambdify((t, m, gamma, g, v0), v_expr, "numpy")
Lambdify ==
    /\ pc = "lambdify"
    /\ v_expr = "built"
    /\ v_num' = "built"
    /\ lambdify_calls' = lambdify_calls + 1
    /\ printed' = <<>>
    /\ pc' = After("lambdify")
    /\ UNCHANGED <<exit_status, exception, lines, lastPrompt, lastInput, t_max, n_puntos,
                   n_escenarios, i, nombre, m_val, gamma_val, g_val, v0_val, escenarios,
                   solver_calls, v_expr, t_vals, figure, results, curves, chart_shown>>

\* t_vals = np.linspace(0.0, t_max, n_puntos)
Linspace ==
    /\ pc = "linspace"
    /\ t_vals' = [start |-> Fin(0, 1), stop |-> t_max, num |-> n_puntos]
    /\ printed' = <<>>
    /\ pc' = After("linspace")
    /\ UNCHANGED <<exit_status, exception, lines, lastPrompt, lastInput, t_max, n_puntos,
                   n_escenarios, i, nombre, m_val, gamma_val, g_val, v0_val, escenarios,
                   solver_calls, lambdify_calls, v_expr, v_num, figure, results, curves,
                   chart_shown>>

\* plt.figure(...) and the header of the report
Figure ==
    /\ pc = "figure"
    /\ figure' = TRUE
    /\ printed' = <<"=== Resultados por escenario ===">>
    /\ pc' = After("figure")
    /\ UNCHANGED <<exit_status, exception, lines, lastPrompt, lastInput, t_max, n_puntos,
                   n_escenarios, i, nombre, m_val, gamma_val, g_val, v0_val, escenarios,
                   solver_calls, lambdify_calls, v_expr, v_num, t_vals, results, curves,
                   chart_shown>>

\* The reporting loop walking the list backwards.
NextEscReversed == Len(escenarios) - Len(results)

\* The scenario the reporting loop takes next.
NextEsc == Len(results) + 1

\* One iteration of "for esc in escenarios": evaluate, report, plot.
Evaluate ==
    /\ pc = "loop"
    /\ v_num = "built"
    /\ Len(results) < Len(escenarios)
    /\ LET esc == escenarios[NextEsc]
           v_vals == v_num_eval(t_vals, esc)
           v_terminal == Div(Mul(esc.m, esc.g), esc.gamma)
       IN  /\ results' = Append(results,
                   [nombre |-> esc.nombre, t |-> t_vals, v_vals |-> v_vals,
                    v_terminal |-> v_terminal])
           /\ curves' = Append(curves,
                   [nombre |-> esc.nombre, m |-> esc.m, gamma |-> esc.gamma,
                    x |-> t_vals, y |-> v_vals])
           /\ printed' = <<esc.nombre>>
    /\ pc' = IF Len(results) + 1 = Len(escenarios) THEN After("loop") ELSE "loop"
    /\ UNCHANGED <<exit_status, exception, lines, lastPrompt, lastInput, t_max, n_puntos,
                   n_escenarios, i, nombre, m_val, gamma_val, g_val, v0_val, escenarios,
                   solver_calls, lambdify_calls, v_expr, v_num, t_vals, figure,
                   chart_shown>>

\* plt.xlabel ... plt.show(): returns when the window is closed.
Show ==
    /\ pc = "show"
    /\ figure
    /\ chart_shown' = TRUE
    /\ printed' = <<>>
    /\ pc' = After("show")
    /\ UNCHANGED <<exit_status, exception, lines, lastPrompt, lastInput, t_max, n_puntos,
                   n_escenarios, i, nombre, m_val, gamma_val, g_val, v0_val, escenarios,
                   solver_calls, lambdify_calls, v_expr, v_num, t_vals, figure, results,
                   curves>>

\* main() returns and the interpreter exits with status 0.
Return ==
    /\ pc = "return"
    /\ pc' = "exited"
    /\ exit_status' = 0
    /\ printed' = <<>>
    /\ UNCHANGED <<exception, lines, lastPrompt, lastInput, t_max, n_puntos,
                   n_escenarios, i, nombre, m_val, gamma_val, g_val, v0_val, escenarios,
                   solver_calls, lambdify_calls, v_expr, v_num, t_vals, figure, results,
                   curves, chart_shown>>

Next ==
    \/ construir_solucion_simbolica
    \/ ReadTMax
    \/ ReadNPuntos
    \/ ReadNEscenarios
    \/ ReadNombre
    \/ ReadM
    \/ ReadGamma
    \/ ReadG
    \/ ReadV0
    \/ Lambdify
    \/ Linspace
    \/ Figure
    \/ Evaluate
    \/ Show
    \/ Return

Spec == Init /\ [][Next]_vars

(* ------------------------------------------------------------------ *)
(* Vocabulary of the properties                                         *)
(* ------------------------------------------------------------------ *)
Printed(msg) == \E p \in 1..Len(printed) : printed[p] = msg

\* The run ended in sys.exit(1) at line 93 / at line 135.
TMaxError == pc = "exited" /\ Printed(MsgErrorTMax)
EscenarioError == pc = "exited" /\ Printed(MsgErrorEscenario)
ValidationError == TMaxError \/ EscenarioError

\* A scenario with a non-positive mass or drag coefficient has been entered.
EntradaInvalida ==
    \/ LeZero(m_val)
    \/ LeZero(gamma_val)
    \/ \E j \in 1..Len(escenarios) : LeZero(escenarios[j].m) \/ LeZero(escenarios[j].gamma)

\* pedir_configuracion_global has returned / pedir_escenarios has returned.
ConfigReturned ==
    \/ lastPrompt \in {"nombre", "m", "gamma", "g", "v0"}
    \/ lastPrompt = "n_escenarios" /\ ~TMaxError /\ exception = "none"
EscenariosReturned == n_escenarios >= 1 /\ i = n_escenarios /\ ConfigReturned

\* The run is in the reporting loop or past it.
ReachedLoop ==
    \/ results # <<>>
    \/ pc \in {"loop", "show", "return"}
    \/ pc = "exited" /\ exit_status = 0

(* ------------------------------------------------------------------ *)
(* Properties                                                           *)
(* ------------------------------------------------------------------ *)

\* C1: once a scenario with m <= 0 or gamma <= 0 has been entered, no chart is
\* ever produced and no Evaluation Result is ever reported (also none for the
\* valid scenarios entered before it); the run can only finish reading that
\* scenario's prompts, and it ends with exit status 1.
C1_InvalidScenarioExits1 ==
    EntradaInvalida =>
        /\ ~figure /\ ~chart_shown
        /\ results = <<>> /\ curves = <<>>
        /\ pc \in {"gamma", "g", "v0", "exited"}
        /\ pc = "exited" => exit_status = 1 /\ EscenarioError

\* C1 witness: the second scenario entered is invalid, after a valid first
\* one, and the run has ended with status 1.
C1_Witness ==
    /\ EscenarioError /\ exit_status = 1
    /\ Len(escenarios) = 1
    /\ EntradaInvalida

\* C2 (as stated): a run ends with status 1 exactly when T_max, a mass or a
\* drag coefficient was non-positive, and otherwise with status 0 after the
\* chart was shown.
C2_ExitCodes ==
    pc = "exited" =>
        /\ exit_status \in {0, 1}
        /\ exit_status = 1 <=> (LeZero(t_max) \/ EntradaInvalida)
        /\ exit_status = 0 => chart_shown

\* C3 (as stated): no exception leaves a numeric prompt; an empty line gives
\* the default silently and a malformed line gives the default with a notice.
C3_PromptNeverThrows ==
    /\ exception = "none"
    /\ LET txt == Strip(lastInput)
           val == CASE lastPrompt = "T_max" -> t_max
                    [] lastPrompt = "m" -> m_val
                    [] lastPrompt = "gamma" -> gamma_val
                    [] lastPrompt = "g" -> g_val
                    [] lastPrompt = "v0" -> v0_val
                    [] OTHER -> Unbound
           def == CASE lastPrompt = "T_max" -> DefaultTMax
                    [] lastPrompt = "m" -> DefaultM
                    [] lastPrompt = "gamma" -> DefaultGamma
                    [] lastPrompt = "g" -> DefaultG
                    [] lastPrompt = "v0" -> DefaultV0
                    [] OTHER -> Unbound
       IN  lastPrompt \in {"T_max", "m", "gamma", "g", "v0"} =>
               /\ txt = <<>> => val = def /\ ~Printed(MsgInvalido)
               /\ (txt # <<>> /\ ~ParseFloat(txt).ok) => val = def /\ Printed(MsgInvalido)

\* C4 (as stated): when pedir_configuracion_global has returned, t_max > 0,
\* n_puntos >= 2 and n_escenarios >= 1, and the time grid has at least two
\* samples, starts at 0 and ends at t_max.
C4_ConfigPostcondition ==
    ConfigReturned =>
        /\ GtZero(t_max)
        /\ n_puntos >= 2
        /\ n_escenarios >= 1
        /\ t_vals # NoGrid =>
               /\ t_vals.num >= 2
               /\ LinspaceAt(t_vals, 0) = Fin(0, 1)
               /\ LinspaceAt(t_vals, t_vals.num - 1) = t_max

\* The closed form  (m*g/gamma)*(1 - e) + v0*e  with e = exp(-gamma*t/m),
\* as the components of  const + coef*e.
ClosedForm(t, m, gamma, g, v0) ==
    [const |-> Div(Mul(m, g), gamma),
     coef  |-> Sub(v0, Div(Mul(m, g), gamma)),
     arg   |-> Div(Mul(gamma, t), m)]

\* C5: for every scenario with finite m > 0, gamma > 0, g, v0 evaluated on a
\* finite grid, the samples of the derived expression are those of the closed
\* form; the sample at t = 0 equals v0; the exponent grows with t (rate > 0)
\* and the constant it leaves is the terminal velocity m*g/gamma.
C5_ClosedForm ==
    \A j \in 1..Len(results) :
        LET e == escenarios[j]
            r == results[j]
        IN  (IsFin(e.m) /\ IsFin(e.gamma) /\ IsFin(e.g) /\ IsFin(e.v0) /\ IsFin(t_max)) =>
                /\ r.v_vals.first = ClosedForm(Fin(0, 1), e.m, e.gamma, e.g, e.v0)
                /\ r.v_vals.last = ClosedForm(t_max, e.m, e.gamma, e.g, e.v0)
                /\ SampleValue(r.v_vals.first) = e.v0
                /\ GtZero(r.v_vals.last.arg)
                /\ r.v_vals.last.const = r.v_terminal
                /\ r.v_terminal = Div(Mul(e.m, e.g), e.gamma)

\* C5 witness: a scenario with a non-zero initial velocity and a non-default
\* drag coefficient has been evaluated.
C5_Witness ==
    \E j \in 1..Len(results) :
        /\ escenarios[j].v0 = Fin(70, 1)
        /\ escenarios[j].gamma = Fin(1, 2)
        /\ IsFin(escenarios[j].m)
        /\ IsFin(t_max)

\* Every prompt has been answered with a value that passed the checks of
\* lines 91 and 133.
AllValidated ==
    /\ t_max # Unbound /\ ~LeZero(t_max)
    /\ n_escenarios >= 1
    /\ Len(escenarios) = n_escenarios
    /\ ~EntradaInvalida

\* C7 (as stated): no symbolic or numeric work before all validation; no such
\* work at all in a run that ends in a validation error.
C7_NoWorkBeforeValidation ==
    /\ (solver_calls > 0 \/ lambdify_calls > 0 \/ results # <<>>) => AllValidated
    /\ ValidationError => solver_calls = 0 /\ lambdify_calls = 0 /\ results = <<>>

\* C7 (amended): the numeric work (lambdify, the time grid, every evaluation)
\* starts only when every prompt has been validated, and a run that ends in a
\* validation error has built no evaluator and no grid and evaluated nothing;
\* the symbolic solver has run once by then, before the first prompt.
C7_NoNumericWorkBeforeValidation ==
    /\ (lambdify_calls > 0 \/ t_vals # NoGrid \/ results # <<>>) => AllValidated
    /\ ValidationError =>
           /\ solver_calls = 1
           /\ lambdify_calls = 0 /\ v_num = "unbound"
           /\ t_vals = NoGrid /\ results = <<>>
    /\ lines > 0 => solver_calls = 1

\* C7 witness: the run ended in a validation error of a scenario.
C7_Witness == EscenarioError /\ solver_calls = 1 /\ lambdify_calls = 0

\* C8: the solver runs once, the evaluator is built once, after the solver
\* and before the first evaluation; the loop evaluates the scenarios one by
\* one in the order entered, each once, on the one shared grid, and N
\* scenarios give N results and N curves in that order.
C8_OnceAndInOrder ==
    /\ lambdify_calls > 0 => solver_calls = 1
    /\ results # <<>> => lambdify_calls = 1
    /\ ReachedLoop =>
           /\ solver_calls = 1 /\ lambdify_calls = 1
           /\ v_expr = "built" /\ v_num = "built"
           /\ Len(results) <= Len(escenarios)
           /\ Len(curves) = Len(results)
           /\ \A j \in 1..Len(results) :
                  /\ results[j].nombre = escenarios[j].nombre
                  /\ results[j].t = t_vals
                  /\ results[j].v_vals = v_num_eval(t_vals, escenarios[j])
                  /\ curves[j].nombre = escenarios[j].nombre
                  /\ curves[j].x = t_vals
                  /\ curves[j].y = results[j].v_vals
           /\ (pc \in {"show", "return", "exited"}) =>
                  /\ Len(results) = Len(escenarios)
                  /\ Len(escenarios) = n_escenarios

\* C8 witness: a run of two different scenarios has ended normally.
C8_Witness ==
    /\ pc = "exited" /\ exit_status = 0
    /\ Len(results) = 2
    /\ escenarios[1] # escenarios[2]
    /\ escenarios[1].nombre # escenarios[2].nombre

\* C9 (as stated): when pedir_escenarios has returned there are exactly
\* n_escenarios scenarios, each with m > 0 and gamma > 0 and a non-empty
\* stripped label; a label read from an empty or blank line is the default
\* label of the scenario's index.
C9_EscenariosPostcondition ==
    /\ EscenariosReturned =>
           /\ Len(escenarios) = n_escenarios
           /\ \A j \in 1..Len(escenarios) :
                  /\ GtZero(escenarios[j].m)
                  /\ GtZero(escenarios[j].gamma)
                  /\ escenarios[j].nombre # <<>>
                  /\ Strip(escenarios[j].nombre) = escenarios[j].nombre
    /\ (lastPrompt = "nombre" /\ Strip(lastInput) = <<>>) => nombre = DefaultNombre(i)
    /\ (lastPrompt = "nombre" /\ Strip(lastInput) # <<>>) => nombre = Strip(lastInput)

\* C10: a T_max error ends the run after exactly 3 lines, a scenario error at
\* scenario k after exactly 3 + 5*k, a normal run of N scenarios after exactly
\* 3 + 5*N; while a non-positive T_max, m or gamma has been read and its
\* prompt group is incomplete the run goes on reading.
C10_LinesConsumed ==
    /\ TMaxError => lines = 3
    /\ EscenarioError => lines = 3 + 5 * (i + 1)
    /\ (pc = "exited" /\ exit_status = 0) => lines = 3 + 5 * n_escenarios
    /\ pc = "exited" => (exit_status = 0 \/ ValidationError \/ exception # "none")
    /\ (LeZero(t_max) /\ lines < 3) => ~ValidationError
    /\ pc \in {"gamma", "g", "v0"} => lines < 3 + 5 * (i + 1)

\* C10 witness: the run was aborted at the second scenario, after 13 lines.
C10_Witness == EscenarioError /\ i = 1 /\ lines = 13

====
